---- MODULE Spec2Model ----
(***************************************************************************)
(* serde-versioned: Versions::deserialize (src/src/lib.rs).                *)
(*                                                                         *)
(* One call of Versions::<Ver<Current>, Ver<V1>, ...>::deserialize is a    *)
(* small state machine: capture the input into a Content buffer, try the   *)
(* Current registration, then walk the or_else chain of the legacy         *)
(* registrations.  A derived struct (tests::test_legacy, struct New) runs  *)
(* one such call per field, in field order.                                *)
(*                                                                         *)
(* Numbers are kept exactly as hi * 2^32 + lo (hi in 0..1), so that the    *)
(* u32 range check is exact without leaving TLC's integers.                *)
(***************************************************************************)
EXTENDS Integers, Sequences, FiniteSets, TLC

VARIABLES
    pc,         \* where the call is: "capture", "current", "legacy", "done"
                \* (and "built" / "failed" for the struct of the test)
    cur,        \* R, the current type the call returns
    regs,       \* the Versions list, as tags: <<"Current", V1, ...>>
    raw,        \* the input of the deserializer d
    content,    \* the captured Content buffer
    idx,        \* the link of the or_else chain reached
    result,     \* the value of the chain so far
    attempts,   \* history: the trials made, in order
    fieldNo,    \* the field of struct New being deserialized (0: a lone call)
    record      \* the fields of struct New built so far

vars == <<pc, cur, regs, raw, content, idx, result, attempts, fieldNo, record>>

(***************************************************************************)
(* Bounds of the model.                                                    *)
(***************************************************************************)
MaxLegacy == 2      \* legacy registrations per Versions list (the code: 1..9)
MaxLen == 3         \* characters of a string payload

(***************************************************************************)
(* Values, payloads and the Content buffer.                                *)
(***************************************************************************)
Alphabet == {"0", "1", "x"}

RECURSIVE SeqsUpTo(_, _)
SeqsUpTo(S, n) ==
    IF n = 0 THEN {<<>>}
    ELSE LET shorter == SeqsUpTo(S, n - 1)
         IN  shorter \cup {Append(s, c) : s \in {t \in shorter : Len(t) = n - 1}, c \in S}

Strings == SeqsUpTo(Alphabet, MaxLen)

\* hi * 2^32 + lo
Nat64(hi, lo) == [hi |-> hi, lo |-> lo]
Numbers == {Nat64(0, 0), Nat64(0, 100), Nat64(0, 200), Nat64(1, 0)}

Ok(v) == [ok |-> TRUE, val |-> v]
Err(e) == [ok |-> FALSE, err |-> e]

\* typed values
U32(lo) == [ty |-> "u32", hi |-> 0, lo |-> lo]
U64(n) == [ty |-> "u64", hi |-> n.hi, lo |-> n.lo]
Field3(n) == [ty |-> "Field3", hi |-> n.hi, lo |-> n.lo]
StringV(s) == [ty |-> "String", s |-> s]
BoolV(b) == [ty |-> "bool", b |-> b]

\* the input handed to the deserializer: one JSON token, or malformed text
RawNum(n) == [kind |-> "num", n |-> n]
RawStr(s) == [kind |-> "str", s |-> s]
RawBool(b) == [kind |-> "bool", b |-> b]
RawBad == [kind |-> "bad"]

RawInputs ==
    {RawNum(n) : n \in Numbers} \cup {RawStr(s) : s \in Strings}
        \cup {RawBool(b) : b \in BOOLEAN} \cup {RawBad}

\* serde's Content tree, the variants the payloads above produce
ContentU64(n) == [tag |-> "U64", n |-> n]
ContentStr(s) == [tag |-> "Str", s |-> s]
ContentBool(b) == [tag |-> "Bool", b |-> b]
NoContent == [tag |-> "none"]

ParseError == [kind |-> "ParseError", msg |-> "expected value"]
Custom(msg) == [kind |-> "Custom", msg |-> msg]
NoMatchError == Custom("data did not match any version type")

\* let content = Content::deserialize(d)?
Capture(r) ==
    CASE r.kind = "num" -> Ok(ContentU64(r.n))
      [] r.kind = "str" -> Ok(ContentStr(r.s))
      [] r.kind = "bool" -> Ok(ContentBool(r.b))
      [] OTHER -> Err(ParseError)

\* serde_json::to_string of a value of a current or legacy type
Serialize(v) ==
    CASE v.ty \in {"u32", "u64", "Field3"} -> RawNum(Nat64(v.hi, v.lo))
      [] v.ty = "String" -> RawStr(v.s)
      [] OTHER -> RawBool(v.b)

\* T::deserialize(ContentRefDeserializer::new(content))
Deserialize(ty, c) ==
    CASE ty = "u32" ->
            IF c.tag = "U64" /\ c.n.hi = 0 THEN Ok(U32(c.n.lo))
            ELSE Err(Custom("invalid type or value"))
      [] ty = "u64" ->
            IF c.tag = "U64" THEN Ok(U64(c.n)) ELSE Err(Custom("invalid type or value"))
      [] ty = "Field3" ->
            IF c.tag = "U64" THEN Ok(Field3(c.n)) ELSE Err(Custom("invalid type or value"))
      [] ty = "String" ->
            IF c.tag = "Str" THEN Ok(StringV(c.s)) ELSE Err(Custom("invalid type or value"))
      [] OTHER ->
            IF c.tag = "Bool" THEN Ok(BoolV(c.b)) ELSE Err(Custom("invalid type or value"))

(***************************************************************************)
(* str::parse::<u32>() / ::<u64>() on the strings of the model.            *)
(***************************************************************************)
IsDigit(ch) == ch \in {"0", "1"}
DigitVal(ch) == IF ch = "1" THEN 1 ELSE 0

RECURSIVE Decimal(_)
Decimal(s) ==
    IF s = <<>> THEN 0
    ELSE 10 * Decimal(SubSeq(s, 1, Len(s) - 1)) + DigitVal(s[Len(s)])

\* At most MaxLen digits: the value stays far below 2^32, so neither parse
\* nor the additions of the converters below can overflow in the model.  The
\* alphabet has no sign character, so every accepted string is all digits.
ParseInt(s) ==
    IF s = <<>> THEN Err("cannot parse integer from empty string")
    ELSE IF \E i \in 1..Len(s) : ~IsDigit(s[i]) THEN Err("invalid digit found in string")
    ELSE Ok(Decimal(s))

(***************************************************************************)
(* The FromVersion registry: for a current type R and a version tag, the   *)
(* legacy wire type (VersionType) and the converter (convert).             *)
(*   - Current: the blanket impl, VersionType = Self, convert = Ok.        *)
(*   - Sem001, Uuid1, OldString (for u32) and Num1 (for Field3): the impls *)
(*     of tests::test_legacy, all with VersionType = String.               *)
(*   - Num2, Uuid2, Sem002: three more impls of the trait, the inputs a    *)
(*     type author hands the library, chosen so that a legacy wire type    *)
(*     other than String and a converter that accepts what str::parse      *)
(*     rejects occur:                                                      *)
(*       Num2   (u32):         VersionType = u64,    u32::try_from(v)      *)
(*       Uuid2  (u32):         VersionType = String, Ok(v.len() as u32)    *)
(*       Sem002 (u32, Field3): VersionType = bool,   Ok(v as ..)           *)
(***************************************************************************)
CurrentTypes == {"u32", "Field3"}
TestTags == {"Uuid1", "OldString", "Num1", "Sem001"}
SampleTags == {"Num2", "Uuid2", "Sem002"}
Tags == {"Current"} \cup TestTags \cup SampleTags

HasImpl(R, tag) ==
    \/ tag = "Current"
    \/ R = "u32" /\ tag \in {"Sem001", "Uuid1", "OldString"}
    \/ R = "Field3" /\ tag = "Num1"
    \/ R = "u32" /\ tag \in {"Num2", "Uuid2", "Sem002"}
    \/ R = "Field3" /\ tag = "Sem002"

VersionType(R, tag) ==
    CASE tag = "Current" -> R
      [] tag \in TestTags -> "String"
      [] tag = "Num2" -> "u64"
      [] tag = "Uuid2" -> "String"
      [] OTHER -> "bool"

Wrap(R, lo) == IF R = "u32" THEN U32(lo) ELSE Field3(Nat64(0, lo))

\* Ok(v.parse::<u32>()? + k), Ok(Self(v.parse::<u64>()? + k))
ParsePlus(R, s, k) ==
    LET p == ParseInt(s)
    IN  IF p.ok THEN Ok(Wrap(R, p.val + k)) ELSE p

\* (variant: one converter per current type, whatever the tag)
ConvertTestAnyTag(R, tag, v) == ParsePlus(R, v.s, 100)

\* the four convert functions of tests::test_legacy
ConvertTest(R, tag, v) ==
    CASE tag = "Sem001" -> ParsePlus(R, v.s, 300)
      [] tag = "Uuid1" -> ParsePlus(R, v.s, 0)
      [] tag = "OldString" -> ParsePlus(R, v.s, 100)
      [] OTHER -> ParsePlus(R, v.s, 200)

ConvertSample(R, tag, v) ==
    CASE tag = "Num2" ->
            IF v.hi = 0 THEN Ok(U32(v.lo))
            ELSE Err("out of range integral type conversion attempted")
      [] tag = "Uuid2" -> Ok(Wrap(R, Len(v.s)))
      [] OTHER -> Ok(Wrap(R, IF v.b THEN 1 ELSE 0))

\* FromVersion::convert, dispatched on (R, Ver<tag>)
Convert(R, tag, v) ==
    CASE tag = "Current" -> Ok(v)
      [] tag \in TestTags -> ConvertTest(R, tag, v)
      [] OTHER -> ConvertSample(R, tag, v)

\* Self::convert(res).map_err(serde::de::Error::custom)
MapErrCustom(r) == IF r.ok THEN r ELSE Err(Custom(r.err))

\* (variant: VersionType::deserialize(..)?, the decode error handed on as it is)
DeserializeVersionedTry(R, tag, c) ==
    LET res == Deserialize(VersionType(R, tag), c)
    IN  IF res.ok
        THEN [decoded |-> TRUE, out |-> MapErrCustom(Convert(R, tag, res.val))]
        ELSE [decoded |-> FALSE, out |-> res]

\* FromVersion::deserialize_versioned, with what it invoked: decoded is
\* whether the structural decode succeeded, i.e. whether convert was called.
DeserializeVersioned(R, tag, c) ==
    LET res == Deserialize(VersionType(R, tag), c)
    IN  IF res.ok
        THEN [decoded |-> TRUE, out |-> MapErrCustom(Convert(R, tag, res.val))]
        ELSE [decoded |-> FALSE, out |-> Err(NoMatchError)]

(***************************************************************************)
(* Versions<Ver<Current>, Ver<V1>, ...>: the lists impl_versions!          *)
(* generates an impl for, and that satisfy the bound on R.                 *)
(***************************************************************************)
MaxVersions == 10

\* (variant: an impl for any first slot)
AcceptedAnyFirst(R, list) ==
    /\ Len(list) >= 2
    /\ Len(list) <= MaxVersions
    /\ \A i \in 1..Len(list) : HasImpl(R, list[i])

Accepted(R, list) ==
    /\ Len(list) >= 2
    /\ Len(list) <= MaxVersions
    /\ list[1] = "Current"
    /\ \A i \in 1..Len(list) : HasImpl(R, list[i])

VersionsLists(R) == {l \in SeqsUpTo(Tags, MaxLegacy + 1) : Accepted(R, l)}

\* $(.or_else(|_| FromVersion::<Ver<$versions>>::...))*: the i-th link of the
\* chain names the i-th registration of the list, in declared order
\* (variant: the links expanded in reverse order)
LegacyTagReversed(list, i) == list[Len(list) + 2 - i]

LegacyTag(list, i) == list[i]

\* Result::or_else: the closure runs only on Err, and its result replaces the Err
\* (variants: Result::or, whose argument is evaluated whatever the receiver is;
\* a chain that goes on only after a structural mismatch)
OrInvokes(prev) == TRUE

OrElseInvokesOnMismatch(prev) == ~prev.ok /\ prev.err = NoMatchError

OrElseInvokes(prev) == ~prev.ok

\* (variant: the first error is kept when the closure fails too)
OrElseKeepErr(prev, next) == IF prev.ok \/ ~next.ok THEN prev ELSE next

OrElse(prev, next) == IF prev.ok THEN prev ELSE next

\* content: &Content, read through ContentRefDeserializer: a trial leaves
\* the buffer as it found it
\* (variant: ContentDeserializer, which takes the buffer by value)
AfterTrialTaken(c) == NoContent

AfterTrial(c) == c

\* The whole chain as one expression: the value of Versions::deserialize on
\* a captured buffer.
RECURSIVE Chain(_, _, _, _, _)
Chain(R, list, c, i, acc) ==
    IF i > Len(list) THEN acc
    ELSE Chain(R, list, c, i + 1,
               IF OrElseInvokes(acc)
               THEN OrElse(acc, DeserializeVersioned(R, LegacyTag(list, i), c).out)
               ELSE acc)

Resolve(R, list, c) == Chain(R, list, c, 2, DeserializeVersioned(R, "Current", c).out)

(***************************************************************************)
(* struct New of tests::test_legacy: its fields, each with its own         *)
(* Versions list.                                                          *)
(***************************************************************************)
Fields ==
    << [name |-> "value", ty |-> "u32", versions |-> <<"Current", "Uuid1">>],
       [name |-> "value2", ty |-> "u32", versions |-> <<"Current", "OldString">>],
       [name |-> "value3", ty |-> "Field3", versions |-> <<"Current", "Num1">>],
       [name |-> "value4", ty |-> "u32", versions |-> <<"Current", "Sem001">>] >>

FieldPayloads ==
    {RawStr(<<"1", "0", "0">>), RawStr(<<"x">>), RawNum(Nat64(0, 100)), RawBad}

NoResult == Err([kind |-> "none", msg |-> ""])

(***************************************************************************)
(* The state machine.                                                      *)
(***************************************************************************)
StartCall(R, list, r) ==
    /\ pc' = "capture"
    /\ cur' = R
    /\ regs' = list
    /\ raw' = r
    /\ content' = NoContent
    /\ idx' = 1
    /\ result' = NoResult
    /\ attempts' = <<>>

Init ==
    /\ pc = "capture"
    /\ content = NoContent
    /\ idx = 1
    /\ result = NoResult
    /\ attempts = <<>>
    /\ record = <<>>
    /\ \/ /\ fieldNo = 0
          /\ cur \in CurrentTypes
          /\ regs \in VersionsLists(cur)
          /\ raw \in RawInputs
       \/ /\ fieldNo = 1
          /\ cur = Fields[1].ty
          /\ regs = Fields[1].versions
          /\ raw \in FieldPayloads

\* let content = Content::deserialize(d)?;
CaptureOk ==
    /\ pc = "capture"
    /\ Capture(raw).ok
    /\ content' = Capture(raw).val
    /\ pc' = "current"
    /\ UNCHANGED <<cur, regs, raw, idx, result, attempts, fieldNo, record>>

\* (variant: the capture error dropped, the chain run on an empty buffer)
CaptureErrIgnored ==
    /\ pc = "capture"
    /\ ~Capture(raw).ok
    /\ pc' = "current"
    /\ UNCHANGED <<cur, regs, raw, content, idx, result, attempts, fieldNo, record>>

CaptureErr ==
    /\ pc = "capture"
    /\ ~Capture(raw).ok
    /\ result' = Err(Capture(raw).err)
    /\ pc' = "done"
    /\ UNCHANGED <<cur, regs, raw, content, idx, attempts, fieldNo, record>>

\* what a trial did: the link of the chain, the tag it dispatched on, whether
\* the structural decode succeeded (convert was called), and what it returned
Attempt(slot, tag, t) == [slot |-> slot, tag |-> tag, decoded |-> t.decoded, out |-> t.out]

\* FromVersion::<Ver<Current>>::deserialize_versioned::<Ds>(&content)
TryCurrent ==
    /\ pc = "current"
    /\ LET t == DeserializeVersioned(cur, "Current", content)
       IN  /\ result' = t.out
           /\ attempts' = Append(attempts, Attempt(1, "Current", t))
    /\ content' = AfterTrial(content)
    /\ idx' = 2
    /\ pc' = "legacy"
    /\ UNCHANGED <<cur, regs, raw, fieldNo, record>>

AfterLink == pc' = IF idx = Len(regs) THEN "done" ELSE "legacy"

\* .or_else(|_| FromVersion::<Ver<$versions>>::deserialize_versioned::<Ds>(&content))
\* on an Err: the closure runs
OrElseCall ==
    /\ pc = "legacy"
    /\ OrElseInvokes(result)
    /\ LET t == DeserializeVersioned(cur, LegacyTag(regs, idx), content)
       IN  /\ result' = OrElse(result, t.out)
           /\ attempts' = Append(attempts, Attempt(idx, LegacyTag(regs, idx), t))
    /\ content' = AfterTrial(content)
    /\ idx' = idx + 1
    /\ AfterLink
    /\ UNCHANGED <<cur, regs, raw, fieldNo, record>>

\* on an Ok: the closure is not run
OrElseSkip ==
    /\ pc = "legacy"
    /\ ~OrElseInvokes(result)
    /\ idx' = idx + 1
    /\ AfterLink
    /\ UNCHANGED <<cur, regs, raw, content, result, attempts, fieldNo, record>>

Stored == [name |-> Fields[fieldNo].name, raw |-> raw, result |-> result]

\* the derived Deserialize of struct New: the next field's deserialize_with
NextField ==
    /\ pc = "done"
    /\ fieldNo \in 1..(Len(Fields) - 1)
    /\ result.ok
    /\ record' = Append(record, Stored)
    /\ fieldNo' = fieldNo + 1
    /\ \E r \in FieldPayloads :
          StartCall(Fields[fieldNo + 1].ty, Fields[fieldNo + 1].versions, r)

\* all fields are in: serde_json::from_str::<New> returns the struct
FinishRecord ==
    /\ pc = "done"
    /\ fieldNo = Len(Fields)
    /\ result.ok
    /\ record' = Append(record, Stored)
    /\ pc' = "built"
    /\ UNCHANGED <<cur, regs, raw, content, idx, result, attempts, fieldNo>>

\* a field's error fails the whole struct
FailRecord ==
    /\ pc = "done"
    /\ fieldNo \in 1..Len(Fields)
    /\ ~result.ok
    /\ pc' = "failed"
    /\ UNCHANGED <<cur, regs, raw, content, idx, result, attempts, fieldNo, record>>

Next ==
    \/ CaptureOk
    \/ CaptureErr
    \/ TryCurrent
    \/ OrElseCall
    \/ OrElseSkip
    \/ NextField
    \/ FinishRecord
    \/ FailRecord

Spec == Init /\ [][Next]_vars

(***************************************************************************)
(* Vocabulary of the properties.  Buf is the buffer the call captured;     *)
(* Decodes, Out and Succeeds are what a registration of the list does on   *)
(* it when taken alone.                                                    *)
(***************************************************************************)
Finished == pc \in {"done", "built", "failed"}
Captured == Capture(raw).ok
Buf == Capture(raw).val
Slots == 1..Len(regs)
LegacySlots == 2..Len(regs)
Decodes(i) == Deserialize(VersionType(cur, regs[i]), Buf).ok
Out(i) == DeserializeVersioned(cur, regs[i], Buf).out
Succeeds(i) == Out(i).ok
Tried == {attempts[k].slot : k \in 1..Len(attempts)}
Min(S) == CHOOSE x \in S : \A y \in S : x <= y
Legacy100 == RawStr(<<"1", "0", "0">>)

ValuesOf(R) ==
    IF R = "u32" THEN {U32(n.lo) : n \in {m \in Numbers : m.hi = 0}}
    ELSE {Field3(n) : n \in Numbers}

\* C1: a value of the current type, serialized and resolved, comes back
\* unchanged from the Current trial alone: no legacy registration is decoded
\* or converted, whatever the list.
C1_CurrentFastPath ==
    \A v \in ValuesOf(cur) :
        raw = Serialize(v) =>
            /\ \A k \in 1..Len(attempts) :
                  attempts[k].slot = 1 /\ attempts[k].tag = "Current"
            /\ Finished => result = Ok(v) /\ Len(attempts) = 1

C1_Witness ==
    /\ pc = "done"
    /\ fieldNo = 0
    /\ Len(regs) >= 3
    /\ \E v \in ValuesOf(cur) : raw = Serialize(v) /\ result = Ok(v)

\* C2 as stated: whenever two legacy registrations R1 (earlier) and R2 (later)
\* both structurally decode the payload, the call returns R1's converted
\* result, and not one R2 produced.
C2_Original ==
    (Finished /\ Captured) =>
        \A i \in LegacySlots : \A j \in LegacySlots :
            (i < j /\ Decodes(i) /\ Decodes(j)) =>
                /\ Succeeds(i) => result = Out(i)
                /\ ~(result.ok /\ attempts[Len(attempts)].slot = j)

\* C2 amended: with R1 and R2 both structurally decoding the payload, if R1's
\* convert succeeds and no registration before R1 succeeds, the call returns
\* R1's converted result and R2 is never tried; R2 is tried only when every
\* registration before it, R1 included, has failed.
C2_OrderedFallback ==
    (Finished /\ Captured) =>
        \A i \in LegacySlots : \A j \in LegacySlots :
            (i < j /\ Decodes(i) /\ Decodes(j)) =>
                /\ (Succeeds(i) /\ \A k \in 1..(i - 1) : ~Succeeds(k)) =>
                      result = Out(i) /\ j \notin Tried
                /\ j \in Tried => \A k \in 1..(j - 1) : ~Succeeds(k)

C2_Witness ==
    /\ pc = "done"
    /\ fieldNo = 0
    /\ Captured
    /\ \E i \in LegacySlots : \E j \in LegacySlots :
          /\ i < j /\ Decodes(i) /\ Decodes(j)
          /\ Succeeds(i) /\ Succeeds(j) /\ Out(i) # Out(j)
          /\ \A k \in 1..(i - 1) : ~Succeeds(k)
          /\ result = Out(i)

C4_Exhaustion ==
    (Finished /\ Captured /\ \A i \in Slots : ~Decodes(i)) =>
        /\ result = Err(Custom("data did not match any version type"))
        /\ \A k \in 1..Len(attempts) : ~attempts[k].decoded
        /\ pc # "built"
        /\ fieldNo >= 1 => Len(record) = fieldNo - 1

C4_Witness ==
    /\ pc = "done"
    /\ fieldNo = 0
    /\ Captured
    /\ Len(regs) >= 3
    /\ \A i \in Slots : ~Decodes(i)
    /\ Len(attempts) = Len(regs)
    /\ ~result.ok

ReverseLegacy(list) ==
    [i \in 1..Len(list) |-> IF i = 1 THEN list[1] ELSE list[Len(list) + 2 - i]]

\* C6: the buffer is the captured one before and after every trial, each
\* trial's outcome is what its registration does on that buffer taken alone,
\* and when exactly one legacy registration succeeds (and Current does not)
\* the list with its legacy registrations reversed resolves to the same value.
C6_BufferReuse ==
    (Captured /\ pc # "capture") =>
        /\ content = Buf
        /\ \A k \in 1..Len(attempts) :
              /\ attempts[k].out = Out(attempts[k].slot)
              /\ attempts[k].decoded = Decodes(attempts[k].slot)
        /\ (/\ Finished
            /\ ~Succeeds(1)
            /\ Cardinality({i \in LegacySlots : Succeeds(i)}) = 1) =>
                  /\ result.ok
                  /\ result = Resolve(cur, ReverseLegacy(regs), content)

C6_Witness ==
    /\ pc = "done"
    /\ fieldNo = 0
    /\ Captured
    /\ Len(regs) >= 3
    /\ regs # ReverseLegacy(regs)
    /\ ~Succeeds(1)
    /\ {i \in LegacySlots : Succeeds(i)} = {Len(regs)}
    /\ Len(attempts) = Len(regs)
    /\ result = Resolve(cur, ReverseLegacy(regs), content)

\* the struct the test expects: value, value2, value3, value4
Expected == <<U32(100), U32(200), Field3(Nat64(0, 300)), U32(400)>>

Named(list) == {list[i] : i \in 1..Len(list)}

\* C7: a field's call tries only the tags of its own Versions list, and on
\* the payload "100" the four fields of the test give 100, 200, Field3(300)
\* and 400, each the result of its own list on its own payload.
C7_FieldIsolation ==
    /\ \A k \in 1..Len(attempts) : attempts[k].tag \in Named(regs)
    /\ fieldNo >= 1 => regs = Fields[fieldNo].versions /\ cur = Fields[fieldNo].ty
    /\ \A f \in 1..Len(Fields) :
          (/\ Finished
           /\ cur = Fields[f].ty
           /\ regs = Fields[f].versions
           /\ raw = Legacy100) => result = Ok(Expected[f])
    /\ \A k \in 1..Len(record) :
          /\ record[k].name = Fields[k].name
          /\ record[k].raw = Legacy100 => record[k].result = Ok(Expected[k])
          /\ Capture(record[k].raw).ok
          /\ record[k].result =
                Resolve(Fields[k].ty, Fields[k].versions, Capture(record[k].raw).val)

C7_Witness ==
    /\ pc = "built"
    /\ Len(record) = Len(Fields)
    /\ \A k \in 1..Len(record) :
          record[k].raw = Legacy100 /\ record[k].result = Ok(Expected[k])

\* C8: when the capture fails the call returns that ParseError at once: no
\* buffer, no trial of any registration.
C8_CaptureFailure ==
    (~Captured /\ pc # "capture") =>
        /\ result = Err(ParseError)
        /\ attempts = <<>>
        /\ content = NoContent
        /\ pc \in {"done", "failed"}

C8_Witness ==
    /\ pc = "done"
    /\ fieldNo = 0
    /\ Len(regs) >= 3
    /\ ~Captured
    /\ result = Err(ParseError)

\* the reference scan: decode, then convert, registration by registration
Scan(i) ==
    LET d == Deserialize(VersionType(cur, regs[i]), Buf)
    IN  IF d.ok THEN Convert(cur, regs[i], d.val) ELSE Err("mismatch")

Winners == {i \in Slots : Scan(i).ok}

\* C9: the call returns what a scan of Current and then the legacy
\* registrations in declared order returns, the converted value of the first
\* registration that decodes and converts; registrations are tried once each,
\* in order, and none after the first success.  With V1 = string + 100 and
\* V2 = string + 300 the payload "100" gives 200.
C9_FirstSuccessWins ==
    Captured =>
        /\ \A k \in 1..Len(attempts) : attempts[k].slot = k /\ attempts[k].tag = regs[k]
        /\ \A k \in 1..(Len(attempts) - 1) : ~attempts[k].out.ok
        /\ Finished =>
              IF Winners = {}
              THEN ~result.ok /\ Len(attempts) = Len(regs)
              ELSE /\ result = Ok(Scan(Min(Winners)).val)
                   /\ Len(attempts) = Min(Winners)
        /\ (/\ Finished
            /\ cur = "u32"
            /\ regs = <<"Current", "OldString", "Sem001">>
            /\ raw = Legacy100) => result = Ok(U32(200))

C9_Witness ==
    /\ pc = "done"
    /\ cur = "u32"
    /\ regs = <<"Current", "OldString", "Sem001">>
    /\ raw = Legacy100
    /\ Len(attempts) = 2
    /\ result = Ok(U32(200))

\* C10 as stated: exactly one registration of the list is Current, the one
\* in first position.
C10_Original ==
    /\ regs[1] = "Current"
    /\ Cardinality({i \in Slots : regs[i] = "Current"}) = 1

\* C10 amended: the first position of every list the call runs on is
\* Current, and the first trial is Current's; the legacy slots are free type
\* parameters and may name Current again, where its trial repeats the first
\* one's failure.
C10_CurrentFirst ==
    /\ Len(regs) >= 2
    /\ regs[1] = "Current"
    /\ attempts # <<>> => attempts[1].slot = 1 /\ attempts[1].tag = regs[1]
    /\ \A k \in 2..Len(attempts) :
          attempts[k].tag = "Current" =>
              attempts[k].out = attempts[1].out /\ ~attempts[k].out.ok

C10_Witness ==
    /\ pc = "done"
    /\ regs[1] = "Current"
    /\ \E i \in LegacySlots : regs[i] = "Current"
    /\ \E k \in 2..Len(attempts) : attempts[k].tag = "Current"

====
